---- MODULE Spec2Model ----
(***************************************************************************)
(* Model of dns_reverse_proxy.go: a DNS reverse proxy that routes each     *)
(* query to an upstream chosen by the suffix of the first question name,   *)
(* and lets only allow-listed clients transfer zones (AXFR/IXFR).          *)
(*                                                                         *)
(* Go strings are modelled as sequences of one-character strings, so that  *)
(* strings.HasSuffix, strings.Split and net.SplitHostPort are computed     *)
(* character by character, as the program computes them.                   *)
(***************************************************************************)
EXTENDS Naturals, Sequences, FiniteSets, TLC

VARIABLES
  routes,        \* map[string]string: suffix key -> upstream address
  transferIPs,   \* []string: the transfer allow-list
  fatal,         \* TRUE when main ended in log.Fatal before serving
  units,         \* the handling units (goroutines) the servers run
  pc,            \* per unit: position of the handler
  req,           \* per unit: req.Question, a sequence of [Name, Qtype]
  rw,            \* per unit: the ResponseWriter's remote address and net
  addr,          \* per unit: the upstream address handed to proxy
  via,           \* per unit: where addr came from ("none", "route", "pool")
  key,           \* per unit: the key of routes that matched, when via is "route"
  sink,          \* per unit: the messages written to the client, in order
  contacts,      \* per unit: the upstream sessions opened, in order
  sent,          \* per unit: the envelopes the upstream delivered so far
  outcome        \* per unit: "none", "responded" or "failed"

vars == << routes, transferIPs, fatal, units, pc, req, rw, addr, via, key, sink,
           contacts, sent, outcome >>

config == << routes, transferIPs, fatal, units >>

(***************************************************************************)
(* Bounds of the model.                                                    *)
(***************************************************************************)
MaxQuestions == 2
MaxStream == 2

(***************************************************************************)
(* Strings.                                                                *)
(***************************************************************************)
Empty == << >>

\* strings.HasPrefix in the place of strings.HasSuffix.
HasPrefix(s, prefix) ==
  /\ Len(s) >= Len(prefix)
  /\ SubSeq(s, 1, Len(prefix)) = prefix

\* strings.HasSuffix(s, suffix)
HasSuffix(s, suffix) ==
  /\ Len(s) >= Len(suffix)
  /\ SubSeq(s, Len(s) - Len(suffix) + 1, Len(s)) = suffix

\* Index of the first c in s, 0 when there is none (Go: -1).
IndexByte(s, c) ==
  IF \E i \in 1..Len(s) : s[i] = c
  THEN CHOOSE i \in 1..Len(s) : s[i] = c /\ \A j \in 1..(i - 1) : s[j] # c
  ELSE 0

\* Index of the last c in s, 0 when there is none.
LastIndexByte(s, c) ==
  IF \E i \in 1..Len(s) : s[i] = c
  THEN CHOOSE i \in 1..Len(s) : s[i] = c /\ \A j \in (i + 1)..Len(s) : s[j] # c
  ELSE 0

\* s[i:] with Go's 0-based i written 1-based: the characters from position i on.
From(s, i) == SubSeq(s, i, Len(s))

\* strings.Split(s, sep) for a one-character separator.
RECURSIVE Split(_, _)
Split(s, sep) ==
  LET i == IndexByte(s, sep)
  IN  IF i = 0 THEN << s >>
      ELSE << SubSeq(s, 1, i - 1) >> \o Split(From(s, i + 1), sep)

\* strings.SplitN(s, sep, 2)
SplitN2(s, sep) ==
  LET i == IndexByte(s, sep)
  IN  IF i = 0 THEN << s >>
      ELSE << SubSeq(s, 1, i - 1), From(s, i + 1) >>

\* net.SplitHostPort(hostport): [host, port, err]; host and port are empty
\* whenever err is TRUE.
AddrErr == [host |-> Empty, port |-> Empty, err |-> TRUE]

SplitHostPort(hostport) ==
  LET i == LastIndexByte(hostport, ":")
      end == IndexByte(hostport, "]")
  IN  IF i = 0 THEN AddrErr
      ELSE IF hostport[1] = "["
      THEN IF end = 0 \/ end = Len(hostport) \/ end + 1 # i THEN AddrErr
           ELSE IF IndexByte(From(hostport, 2), "[") # 0 THEN AddrErr
           ELSE IF IndexByte(From(hostport, end + 1), "]") # 0 THEN AddrErr
           ELSE [host |-> SubSeq(hostport, 2, end - 1),
                 port |-> From(hostport, i + 1), err |-> FALSE]
      ELSE IF IndexByte(SubSeq(hostport, 1, i - 1), ":") # 0 THEN AddrErr
           ELSE IF IndexByte(hostport, "[") # 0 THEN AddrErr
           ELSE IF IndexByte(hostport, "]") # 0 THEN AddrErr
           ELSE [host |-> SubSeq(hostport, 1, i - 1),
                 port |-> From(hostport, i + 1), err |-> FALSE]

(***************************************************************************)
(* Program constants and startup (main).                                   *)
(***************************************************************************)
\* publicServer, in the order of the source.
publicServer ==
  << <<"1", ".", "1", ".", "1", ".", "1", ":", "5", "3">>,
     <<"8", ".", "8", ".", "8", ".", "8", ":", "5", "3">>,
     <<"8", ".", "8", ".", "4", ".", "4", ":", "5", "3">>,
     <<"2", "0", "9", ".", "2", "4", "4", ".", "0", ".", "3">>,
     <<"2", "0", "9", ".", "2", "4", "4", ".", "0", ".", "4">>,
     <<"6", "4", ".", "6", ".", "6", "4", ".", "6">>,
     <<"6", "4", ".", "6", ".", "6", "5", ".", "6">>,
     <<"9", ".", "9", ".", "9", ".", "9", ":", "5", "3">>,
     <<"1", "4", "9", ".", "1", "1", "2", ".", "1", "1", "2", ".", "1", "1", "2", ":", "5", "3">>,
     <<"8", "4", ".", "2", "0", "0", ".", "6", "9", ".", "8", "0", ":", "5", "3">>,
     <<"8", "4", ".", "2", "0", "0", ".", "7", "0", ".", "4", "0", ":", "5", "3">>,
     <<"8", ".", "2", "6", ".", "5", "6", ".", "2", "6", ":", "5", "3">>,
     <<"8", ".", "2", "0", ".", "2", "4", "7", ".", "2", "0", ":", "5", "3">>,
     <<"2", "0", "8", ".", "6", "7", ".", "2", "2", "2", ".", "2", "2", "2", ":", "5", "3">>,
     <<"2", "0", "8", ".", "6", "7", ".", "2", "2", "0", ".", "2", "2", "0">>,
     <<"1", "9", "9", ".", "8", "5", ".", "1", "2", "6", ".", "1", "0", ":", "5", "3">>,
     <<"1", "9", "9", ".", "8", "5", ".", "1", "2", "7", ".", "1", "0", ":", "5", "3">>,
     <<"8", "1", ".", "2", "1", "8", ".", "1", "1", "9", ".", "1", "1", ":", "5", "3">>,
     <<"2", "0", "9", ".", "8", "8", ".", "1", "9", "8", ".", "1", "3", "3", ":", "5", "3">>,
     <<"1", "9", "5", ".", "4", "6", ".", "3", "9", ".", "3", "9", ":", "5", "3">>,
     <<"1", "9", "5", ".", "4", "6", ".", "3", "9", ".", "4", "0", ":", "5", "3">>,
     <<"6", "9", ".", "1", "9", "5", ".", "1", "5", "2", ".", "2", "0", "4", ":", "5", "3">>,
     <<"2", "3", ".", "9", "4", ".", "6", "0", ".", "2", "4", "0", ":", "5", "3">>,
     <<"2", "0", "8", ".", "7", "6", ".", "5", "0", ".", "5", "0", ":", "5", "3">>,
     <<"2", "0", "8", ".", "7", "6", ".", "5", "1", ".", "5", "1", ":", "5", "3">>,
     <<"2", "1", "6", ".", "1", "4", "6", ".", "3", "5", ".", "3", "5", ":", "5", "3">>,
     <<"2", "1", "6", ".", "1", "4", "6", ".", "3", "6", ".", "3", "6", ":", "5", "3">>,
     <<"3", "7", ".", "2", "3", "5", ".", "1", ".", "1", "7", "4", ":", "5", "3">>,
     <<"3", "7", ".", "2", "3", "5", ".", "1", ".", "1", "7", "7", ":", "5", "3">>,
     <<"1", "9", "8", ".", "1", "0", "1", ".", "2", "4", "2", ".", "7", "2", ":", "5", "3">>,
     <<"2", "3", ".", "2", "5", "3", ".", "1", "6", "3", ".", "5", "3", ":", "5", "3">>,
     <<"7", "7", ".", "8", "8", ".", "8", ".", "8", ":", "5", "3">>,
     <<"7", "7", ".", "8", "8", ".", "8", ".", "1", ":", "5", "3">>,
     <<"9", "1", ".", "2", "3", "9", ".", "1", "0", "0", ".", "1", "0", "0", ":", "5", "3">> >>

validHostPort(s) ==
  LET r == SplitHostPort(s)
  IN  ~(r.err \/ r.host = Empty \/ r.port = Empty)

\* The key stored as given, without the trailing ".".
RouteKeyAsGiven(k) == k

\* The key under which a route is stored: s[0], with "." appended unless it
\* already ends in one.
RouteKey(k) == IF HasSuffix(k, << "." >>) THEN k ELSE k \o << "." >>

\* m with m[k] = v, as a Go map assignment.
MapPut(m, k, v) ==
  [x \in (DOMAIN m) \cup {k} |-> IF x = k THEN v ELSE m[x]]

EmptyMap == [x \in {} |-> Empty]

\* The loop of main over the entries of -route: the table built from the
\* entries items[i..], starting from m; fatal as soon as an entry is invalid.
RECURSIVE AddRoutes(_, _, _)
AddRoutes(items, i, m) ==
  IF i > Len(items) THEN [fatal |-> FALSE, routes |-> m]
  ELSE LET s == SplitN2(items[i], "=")
       IN  IF Len(s) # 2 \/ ~validHostPort(s[2])
           THEN [fatal |-> TRUE, routes |-> m]
           ELSE AddRoutes(items, i + 1, MapPut(m, RouteKey(s[1]), s[2]))

ParseRoutes(routeList) ==
  IF routeList = Empty THEN [fatal |-> FALSE, routes |-> EmptyMap]
  ELSE AddRoutes(Split(routeList, ","), 1, EmptyMap)

\* The values of the -route flag the model starts from.
RouteLists ==
  { Empty,
    <<"e", "x", "a", "m", "p", "l", "e", ".", "c", "o", "m", ".", "=", "8", ".", "8", ".", "4", ".", "4", ":", "5", "3">>,  \* "example.com.=8.8.4.4:53"
    <<".", "e", "x", "a", "m", "p", "l", "e", ".", "c", "o", "m", ".", "=", "8", ".", "8", ".", "4", ".", "4", ":", "5", "3">>,  \* ".example.com.=8.8.4.4:53"
    <<"s", "u", "b", "d", "o", "m", "a", "i", "n", ".", "e", "x", "a", "m", "p", "l", "e", ".", "c", "o", "m", "=", "9", ".", "9", ".", "9", ".", "9", ":", "5", "3", ",", "c", "o", "m", "=", "1", ".", "1", ".", "1", ".", "1", ":", "5", "3">>,  \* "subdomain.example.com=9.9.9.9:53,com=1.1.1.1:53"
    <<"e", "x", "a", "m", "p", "l", "e", ".", "c", "o", "m", "=", "8", ".", "8", ".", "4", ".", "4">> }  \* "example.com=8.8.4.4"

\* The values of the -allow-transfer flag the model starts from.
AllowTransfers ==
  { Empty,
    <<"1", ".", "2", ".", "3", ".", "4", ",", ":", ":", "1">> }  \* "1.2.3.4,::1"

(***************************************************************************)
(* Inputs of a query.                                                      *)
(***************************************************************************)
AllUnits == {"u1", "u2"}

Qtypes == {"A", "AXFR", "IXFR"}

QNames ==
  { <<"s", "u", "b", "d", "o", "m", "a", "i", "n", ".", "e", "x", "a", "m", "p", "l", "e", ".", "c", "o", "m", ".">>,  \* "subdomain.example.com."
    <<"n", "o", "t", "e", "x", "a", "m", "p", "l", "e", ".", "c", "o", "m", ".">>,  \* "notexample.com."
    <<"e", "x", "a", "m", "p", "l", "e", ".", "c", "o", "m", ".">>,  \* "example.com."
    <<"e", "x", "a", "m", "p", "l", "e", ".", "n", "e", "t", ".">>,  \* "example.net."
    <<"o", "t", "h", "e", "r", ".", "n", "e", "t", ".">> }  \* "other.net."

\* The names of a query of several questions: route reads the name of the
\* first question only, isTransfer the types of all of them.
FirstName == <<"s", "u", "b", "d", "o", "m", "a", "i", "n", ".", "e", "x", "a", "m", "p", "l", "e", ".", "c", "o", "m", ".">>  \* "subdomain.example.com."
RestName == <<"o", "t", "h", "e", "r", ".", "n", "e", "t", ".">>  \* "other.net."

\* The question lists: no question; one question of any name and type; or up
\* to MaxQuestions questions of any types.
Questions ==
  { << >> } \cup
  { << [Name |-> nm, Qtype |-> ty] >> : nm \in QNames, ty \in Qtypes } \cup
  UNION { { [i \in 1..n |-> [Name |-> IF i = 1 THEN FirstName ELSE RestName,
                              Qtype |-> ts[i]]]
            : ts \in [1..n -> Qtypes] }
          : n \in 2..MaxQuestions }

\* w.RemoteAddr(): its String() and whether it is a *net.TCPAddr.
RemoteAddrs ==
  { <<"1", ".", "2", ".", "3", ".", "4", ":", "5", "5", "5", "5">>,  \* "1.2.3.4:5555"
    <<"5", ".", "6", ".", "7", ".", "8", ":", "5", "5", "5", "5">>,  \* "5.6.7.8:5555"
    <<"[", ":", ":", "1", "]", ":", "5", "5", "5", "5">> }  \* "[::1]:5555"

Writers == [remote : RemoteAddrs, net : {"udp", "tcp"}]

NoWriter == [remote |-> Empty, net |-> "none"]

\* The bodies of the replies an upstream may give, and the records of a zone.
Replies == {"r1", "r2"}
Records == {"A", "B"}

\* The messages written to the client.
ServFail == [kind |-> "servfail", body |-> "none"]
Reply(r) == [kind |-> "reply", body |-> r]
XfrMsg(rr) == [kind |-> "xfr", body |-> rr]

NoAddr == Empty

(***************************************************************************)
(* isTransfer, allowed and the selection of the upstream in route.         *)
(***************************************************************************)
\* isTransfer looking at the first question only.
isTransferFirstOnly(q) ==
  Len(q) > 0 /\ q[1].Qtype \in {"IXFR", "AXFR"}

isTransfer(q) ==
  \E i \in 1..Len(q) : q[i].Qtype \in {"IXFR", "AXFR"}

\* allowed with the comparison of its loop inverted.
allowedInverted(w, q) ==
  IF ~isTransfer(q) THEN TRUE
  ELSE LET remote == SplitHostPort(w.remote).host
       IN  \E i \in 1..Len(transferIPs) : transferIPs[i] # remote

\* allowed(w, req): the result of SplitHostPort is used whatever its error.
allowed(w, q) ==
  IF ~isTransfer(q) THEN TRUE
  ELSE LET remote == SplitHostPort(w.remote).host
       IN  \E i \in 1..Len(transferIPs) : transferIPs[i] = remote

\* The test of route without the test of the question list.
RejectedUnlessEmpty(w, q) == Len(q) # 0 /\ ~allowed(w, q)

\* The condition on which route fails the query before any selection.
Rejected(w, q) == Len(q) = 0 \/ ~allowed(w, q)

\* The keys of routes that are a prefix of name.
MatchingPrefix(name) == { k \in DOMAIN routes : HasPrefix(name, k) }

\* The keys of routes that are a suffix of name.
Matching(name) == { k \in DOMAIN routes : HasSuffix(name, k) }

\* An index one past the end of the pool, read as the empty address.
randomPublicServerPastEnd ==
  { publicServer[i] : i \in 1..Len(publicServer) } \cup { Empty }

\* randomPublicServer(): rand.Intn(len(publicServer)) is any index.
randomPublicServer == { publicServer[i] : i \in 1..Len(publicServer) }

\* The loop of route returning the upstream of any route once some key matches.
SelectUpstreamAnyRoute(q) ==
  IF Matching(q[1].Name) # {}
  THEN { [addr |-> routes[k], via |-> "route", key |-> k] : k \in DOMAIN routes }
  ELSE { [addr |-> a, via |-> "pool", key |-> Empty] : a \in randomPublicServer }

\* The loop of route over the map, then the default: Go ranges over a map in
\* an unspecified order, so the first key found to match is any matching key.
SelectUpstream(q) ==
  IF Matching(q[1].Name) # {}
  THEN { [addr |-> routes[k], via |-> "route", key |-> k]
         : k \in Matching(q[1].Name) }
  ELSE { [addr |-> a, via |-> "pool", key |-> Empty] : a \in randomPublicServer }

(***************************************************************************)
(* Init: the state when main starts the two servers.                       *)
(***************************************************************************)
Startup(routeList, allowTransfer, us) ==
  /\ transferIPs = Split(allowTransfer, ",")
  /\ routes = ParseRoutes(routeList).routes
  /\ fatal = ParseRoutes(routeList).fatal
  /\ units = us
  /\ pc = [u \in AllUnits |-> "idle"]
  /\ req = [u \in AllUnits |-> << >>]
  /\ rw = [u \in AllUnits |-> NoWriter]
  /\ addr = [u \in AllUnits |-> NoAddr]
  /\ via = [u \in AllUnits |-> "none"]
  /\ key = [u \in AllUnits |-> Empty]
  /\ sink = [u \in AllUnits |-> << >>]
  /\ contacts = [u \in AllUnits |-> << >>]
  /\ sent = [u \in AllUnits |-> << >>]
  /\ outcome = [u \in AllUnits |-> "none"]

\* Under Init one unit handles the queries, one after another: handlers share
\* nothing but routes, transferIPs and publicServer, which no handler writes.
Init ==
  \E rl \in RouteLists, at \in AllowTransfers : Startup(rl, at, {"u1"})

(***************************************************************************)
(* The handler of one query: route, then proxy.                            *)
(***************************************************************************)
\* dns.HandleFailed(w, req): writes a SERVFAIL reply; the handler returns.
HandleFailed(u) ==
  /\ sink' = [sink EXCEPT ![u] = Append(@, ServFail)]
  /\ outcome' = [outcome EXCEPT ![u] = "failed"]
  /\ pc' = [pc EXCEPT ![u] = "done"]

\* A server reads a query and calls route(w, req) in a unit of its own.
Receive(u) ==
  /\ ~fatal
  /\ u \in units
  /\ pc[u] = "idle"
  /\ \E q \in Questions, w \in Writers :
       /\ req' = [req EXCEPT ![u] = q]
       /\ rw' = [rw EXCEPT ![u] = w]
  /\ pc' = [pc EXCEPT ![u] = "route"]
  /\ UNCHANGED << config, addr, via, key, sink, contacts, sent, outcome >>

\* route, up to its call of proxy. Reading req.Question[0] of an empty question
\* list is a run-time panic (index out of range), which the first test of route
\* keeps from happening.
Route(u) ==
  /\ pc[u] = "route"
  /\ IF Rejected(rw[u], req[u])
     THEN /\ HandleFailed(u)
          /\ UNCHANGED << addr, via, key >>
     ELSE IF Len(req[u]) = 0
     THEN /\ pc' = [pc EXCEPT ![u] = "panic"]
          /\ UNCHANGED << addr, via, key, sink, outcome >>
     ELSE /\ \E s \in SelectUpstream(req[u]) :
               /\ addr' = [addr EXCEPT ![u] = s.addr]
               /\ via' = [via EXCEPT ![u] = s.via]
               /\ key' = [key EXCEPT ![u] = s.key]
          /\ pc' = [pc EXCEPT ![u] = "proxy"]
          /\ UNCHANGED << sink, outcome >>
  /\ UNCHANGED << config, req, rw, contacts, sent >>

\* proxy without its type assertion: the transport stays "udp".
TransportAlwaysUdp(w) == "udp"

\* The type assertion of proxy taking every writer for a TCP one.
TransportAlwaysTcp(w) == "tcp"

\* The transport of the exchange with the upstream: that of the client.
Transport(w) == IF w.net = "tcp" THEN "tcp" ELSE "udp"

\* proxy holding one lock for all handlers while it talks to an upstream.
ProxyOneAtATime(u) ==
  /\ pc[u] = "proxy"
  /\ \A v \in AllUnits \ {u} : pc[v] \notin {"in", "out", "exchange"}
  /\ IF isTransfer(req[u])
     THEN IF Transport(rw[u]) # "tcp"
          THEN /\ HandleFailed(u)
               /\ UNCHANGED contacts
          ELSE /\ contacts' = [contacts EXCEPT ![u] =
                    Append(@, [kind |-> "transfer", addr |-> addr[u], net |-> "tcp"])]
               /\ pc' = [pc EXCEPT ![u] = "in"]
               /\ UNCHANGED << sink, outcome >>
     ELSE /\ contacts' = [contacts EXCEPT ![u] =
               Append(@, [kind |-> "exchange", addr |-> addr[u],
                          net |-> Transport(rw[u])])]
          /\ pc' = [pc EXCEPT ![u] = "exchange"]
          /\ UNCHANGED << sink, outcome >>
  /\ UNCHANGED << config, req, rw, addr, via, key, sent >>

\* proxy opening the session with the upstream ahead of its transport check.
ProxyDialFirst(u) ==
  /\ pc[u] = "proxy"
  /\ IF isTransfer(req[u])
     THEN /\ contacts' = [contacts EXCEPT ![u] =
               Append(@, [kind |-> "transfer", addr |-> addr[u], net |-> "tcp"])]
          /\ IF Transport(rw[u]) # "tcp"
             THEN HandleFailed(u)
             ELSE /\ pc' = [pc EXCEPT ![u] = "in"]
                  /\ UNCHANGED << sink, outcome >>
     ELSE /\ contacts' = [contacts EXCEPT ![u] =
               Append(@, [kind |-> "exchange", addr |-> addr[u],
                          net |-> Transport(rw[u])])]
          /\ pc' = [pc EXCEPT ![u] = "exchange"]
          /\ UNCHANGED << sink, outcome >>
  /\ UNCHANGED << config, req, rw, addr, via, key, sent >>

\* proxy, up to the call that contacts the upstream: t.In dials the upstream
\* over TCP, c.Exchange over the transport of the client.
Proxy(u) ==
  /\ pc[u] = "proxy"
  /\ IF isTransfer(req[u])
     THEN IF Transport(rw[u]) # "tcp"
          THEN /\ HandleFailed(u)
               /\ UNCHANGED contacts
          ELSE /\ contacts' = [contacts EXCEPT ![u] =
                    Append(@, [kind |-> "transfer", addr |-> addr[u], net |-> "tcp"])]
               /\ pc' = [pc EXCEPT ![u] = "in"]
               /\ UNCHANGED << sink, outcome >>
     ELSE /\ contacts' = [contacts EXCEPT ![u] =
               Append(@, [kind |-> "exchange", addr |-> addr[u],
                          net |-> Transport(rw[u])])]
          /\ pc' = [pc EXCEPT ![u] = "exchange"]
          /\ UNCHANGED << sink, outcome >>
  /\ UNCHANGED << config, req, rw, addr, via, key, sent >>

\* Dialing an upstream (net.Dial, under t.In and c.Exchange) needs an address
\* that splits into host and port; any other address is an error of the call.
CanDial(a) == ~SplitHostPort(a).err

\* t.In returns: an error, or the channel of the envelopes of the transfer.
TransferIn(u) ==
  /\ pc[u] = "in"
  /\ \/ HandleFailed(u)
     \/ /\ CanDial(addr[u])
        /\ pc' = [pc EXCEPT ![u] = "out"]
        /\ UNCHANGED << sink, outcome >>
  /\ UNCHANGED << config, req, rw, addr, via, key, contacts, sent >>

\* An envelope of the transfer: the records of one message of the upstream, or
\* the error that ended the transfer (the last envelope of the channel).
Envelopes ==
  [rr : Records, err : {FALSE}] \cup {[rr |-> "none", err |-> TRUE]}

ChannelClosed(s) == s # << >> /\ s[Len(s)].err

\* t.Out writing the newest message ahead of the ones already written.
TransferOutNewestFirst(u) ==
  /\ pc[u] = "out"
  /\ ~ChannelClosed(sent[u])
  /\ Len(sent[u]) < MaxStream
  /\ \E x \in Envelopes :
       /\ sent' = [sent EXCEPT ![u] = Append(@, x)]
       /\ \/ /\ sink' = [sink EXCEPT ![u] = << XfrMsg(x.rr) >> \o @]
             /\ UNCHANGED << pc, outcome >>
          \/ HandleFailed(u)
  /\ UNCHANGED << config, req, rw, addr, via, key, contacts >>

\* One turn of the loop of t.Out: the next envelope of the channel is written
\* to the client as one message, whether or not it carries an error; when the
\* write fails, t.Out returns the error and proxy fails the query.
TransferOut(u) ==
  /\ pc[u] = "out"
  /\ ~ChannelClosed(sent[u])
  /\ Len(sent[u]) < MaxStream
  /\ \E x \in Envelopes :
       /\ sent' = [sent EXCEPT ![u] = Append(@, x)]
       /\ \/ /\ sink' = [sink EXCEPT ![u] = Append(@, XfrMsg(x.rr))]
             /\ UNCHANGED << pc, outcome >>
          \/ HandleFailed(u)
  /\ UNCHANGED << config, req, rw, addr, via, key, contacts >>

\* t.Out returning only once an error envelope has closed the channel.
TransferDoneOnError(u) ==
  /\ pc[u] = "out"
  /\ ChannelClosed(sent[u])
  /\ pc' = [pc EXCEPT ![u] = "done"]
  /\ outcome' = [outcome EXCEPT ![u] = "responded"]
  /\ UNCHANGED << config, req, rw, addr, via, key, sink, contacts, sent >>

\* The channel is closed, after at least one envelope: t.Out returns nil and
\* proxy returns.
TransferDone(u) ==
  /\ pc[u] = "out"
  /\ sent[u] # << >>
  /\ pc' = [pc EXCEPT ![u] = "done"]
  /\ outcome' = [outcome EXCEPT ![u] = "responded"]
  /\ UNCHANGED << config, req, rw, addr, via, key, sink, contacts, sent >>

\* proxy remembering, as a route, the upstream that answered a name.
ExchangeReturnCaching(u) ==
  /\ pc[u] = "exchange"
  /\ \/ /\ HandleFailed(u)
        /\ UNCHANGED << sent, routes >>
     \/ \E r \in Replies :
          /\ CanDial(addr[u])
          /\ sent' = [sent EXCEPT ![u] = << [rr |-> r, err |-> FALSE] >>]
          /\ sink' = [sink EXCEPT ![u] = Append(@, Reply(r))]
          /\ outcome' = [outcome EXCEPT ![u] = "responded"]
          /\ pc' = [pc EXCEPT ![u] = "done"]
          /\ routes' = MapPut(routes, req[u][1].Name, addr[u])
  /\ UNCHANGED << transferIPs, fatal, units, req, rw, addr, via, key, contacts >>

\* proxy calling the upstream again when the exchange returns an error.
ExchangeReturnRetry(u) ==
  /\ pc[u] = "exchange"
  /\ \/ /\ pc' = [pc EXCEPT ![u] = "proxy"]
        /\ UNCHANGED << sent, sink, outcome >>
     \/ \E r \in Replies :
          /\ CanDial(addr[u])
          /\ sent' = [sent EXCEPT ![u] = << [rr |-> r, err |-> FALSE] >>]
          /\ sink' = [sink EXCEPT ![u] = Append(@, Reply(r))]
          /\ outcome' = [outcome EXCEPT ![u] = "responded"]
          /\ pc' = [pc EXCEPT ![u] = "done"]
  /\ UNCHANGED << config, req, rw, addr, via, key, contacts >>

\* proxy without the return after HandleFailed: the reply is written as well.
ExchangeReturnNoReturn(u) ==
  /\ pc[u] = "exchange"
  /\ \E r \in Replies :
       /\ CanDial(addr[u])
       /\ sent' = [sent EXCEPT ![u] = << [rr |-> r, err |-> FALSE] >>]
       /\ \/ sink' = [sink EXCEPT ![u] = Append(Append(@, ServFail), Reply(r))]
          \/ sink' = [sink EXCEPT ![u] = Append(@, Reply(r))]
       /\ outcome' = [outcome EXCEPT ![u] = "responded"]
       /\ pc' = [pc EXCEPT ![u] = "done"]
  /\ UNCHANGED << config, req, rw, addr, via, key, contacts >>

\* c.Exchange returns: an error, or the reply, which proxy writes to the client.
ExchangeReturn(u) ==
  /\ pc[u] = "exchange"
  /\ \/ /\ HandleFailed(u)
        /\ UNCHANGED sent
     \/ \E r \in Replies :
          /\ CanDial(addr[u])
          /\ sent' = [sent EXCEPT ![u] = << [rr |-> r, err |-> FALSE] >>]
          /\ sink' = [sink EXCEPT ![u] = Append(@, Reply(r))]
          /\ outcome' = [outcome EXCEPT ![u] = "responded"]
          /\ pc' = [pc EXCEPT ![u] = "done"]
  /\ UNCHANGED << config, req, rw, addr, via, key, contacts >>

\* The handler has returned: the query, its writer and everything the handler
\* computed are local to the call and gone; the unit is free for another query.
Return(u) ==
  /\ pc[u] = "done"
  /\ pc' = [pc EXCEPT ![u] = "idle"]
  /\ req' = [req EXCEPT ![u] = << >>]
  /\ rw' = [rw EXCEPT ![u] = NoWriter]
  /\ addr' = [addr EXCEPT ![u] = NoAddr]
  /\ via' = [via EXCEPT ![u] = "none"]
  /\ key' = [key EXCEPT ![u] = Empty]
  /\ sink' = [sink EXCEPT ![u] = << >>]
  /\ contacts' = [contacts EXCEPT ![u] = << >>]
  /\ sent' = [sent EXCEPT ![u] = << >>]
  /\ outcome' = [outcome EXCEPT ![u] = "none"]
  /\ UNCHANGED config

\* The steps of the handler of unit u.
Handle(u) ==
  \/ Route(u)
  \/ Proxy(u)
  \/ TransferIn(u)
  \/ TransferOut(u)
  \/ TransferDone(u)
  \/ ExchangeReturn(u)

Next == \E u \in AllUnits : Receive(u) \/ Handle(u) \/ Return(u)

Spec == Init /\ [][Next]_vars

\* Every handler that has work to do keeps running (a goroutine is scheduled)
\* and every call to an upstream returns.
LiveSpec == Spec /\ \A u \in AllUnits : WF_vars(Handle(u))

(***************************************************************************)
(* Two queries in hand at once: the servers of main call route in a        *)
(* goroutine per query. The queries are taken from sets small enough for   *)
(* every pair of handler states to be visited.                             *)
(***************************************************************************)
ConcQuestions ==
  { << >>,
    << [Name |-> FirstName, Qtype |-> "A"] >>,
    << [Name |-> FirstName, Qtype |-> "AXFR"] >>,
    << [Name |-> RestName, Qtype |-> "A"] >> }

ConcWriters ==
  { w \in Writers :
      \/ w.remote = <<"1", ".", "2", ".", "3", ".", "4", ":", "5", "5", "5", "5">>
      \/ (w.remote = <<"5", ".", "6", ".", "7", ".", "8", ":", "5", "5", "5", "5">>
            /\ w.net = "tcp") }

\* Started with -route example.com.=8.8.4.4:53 -allow-transfer 1.2.3.4,::1,
\* with two handling units.
ConcInit ==
  Startup(<<"e", "x", "a", "m", "p", "l", "e", ".", "c", "o", "m", ".", "=", "8", ".", "8", ".", "4", ".", "4", ":", "5", "3">>,
          <<"1", ".", "2", ".", "3", ".", "4", ",", ":", ":", "1">>,
          AllUnits)

ReceiveConc(u) ==
  /\ ~fatal
  /\ u \in units
  /\ pc[u] = "idle"
  /\ \E q \in ConcQuestions, w \in ConcWriters :
       /\ req' = [req EXCEPT ![u] = q]
       /\ rw' = [rw EXCEPT ![u] = w]
  /\ pc' = [pc EXCEPT ![u] = "route"]
  /\ UNCHANGED << config, addr, via, key, sink, contacts, sent, outcome >>

ConcNext == \E u \in AllUnits : ReceiveConc(u) \/ Handle(u) \/ Return(u)

ConcSpec == ConcInit /\ [][ConcNext]_vars

\* The handler of u2 keeps running and its upstream answers; nothing is
\* assumed of u1, whose upstream may never answer.
ConcLiveSpec == ConcSpec /\ WF_vars(Handle("u2"))

(***************************************************************************)
(* route as a handler of any dns.ResponseWriter. The servers of main hand  *)
(* it writers of UDP and TCP sockets, whose addresses print as "ip:port";  *)
(* the interface itself allows more: a *net.TCPAddr without an IP prints   *)
(* as ":port", and an address of another type, which proxy takes for a     *)
(* UDP one, prints as anything.                                            *)
(***************************************************************************)
AnyWriters ==
  Writers \cup
  { [remote |-> <<":", "5", "5", "5", "5">>, net |-> "tcp"],
    [remote |-> <<":", "5", "5", "5", "5">>, net |-> "udp"],
    [remote |-> <<"1", ".", "2", ".", "3", ".", "4">>, net |-> "udp"] }

ReceiveAny(u) ==
  /\ ~fatal
  /\ u \in units
  /\ pc[u] = "idle"
  /\ \E q \in Questions, w \in AnyWriters :
       /\ req' = [req EXCEPT ![u] = q]
       /\ rw' = [rw EXCEPT ![u] = w]
  /\ pc' = [pc EXCEPT ![u] = "route"]
  /\ UNCHANGED << config, addr, via, key, sink, contacts, sent, outcome >>

NextAny == \E u \in AllUnits : ReceiveAny(u) \/ Handle(u) \/ Return(u)

HandlerSpec == Init /\ [][NextAny]_vars

(***************************************************************************)
(* Notions the properties are stated with.                                 *)
(***************************************************************************)
\* The host part of the remote address of a writer, port stripped.
ClientHost(w) == SplitHostPort(w.remote).host

\* The client of the writer is an entry of the transfer allow-list.
InAllowList(w) == \E i \in 1..Len(transferIPs) : transferIPs[i] = ClientHost(w)

\* Some question of the list is a zone-transfer question.
TransferQuery(q) == \E i \in 1..Len(q) : q[i].Qtype = "AXFR" \/ q[i].Qtype = "IXFR"

\* Unit u is handling, or has handled, a query.
Handling(u) == pc[u] # "idle"

\* name ends in the characters of suffix.
EndsIn(name, suffix) ==
  \E n \in 0..Len(name) :
    /\ Len(suffix) = Len(name) - n
    /\ \A i \in 1..Len(suffix) : name[n + i] = suffix[i]

\* The messages of a sink of the given kind.
Count(s, kind) == Cardinality({ i \in 1..Len(s) : s[i].kind = kind })

(***************************************************************************)
(* C1: a zone-transfer query whose client is not in the allow-list is      *)
(* failed by route itself: over either transport the handler ends after    *)
(* one SERVFAIL, it selects no upstream and opens no session with one.     *)
(***************************************************************************)
C1_UnauthorizedTransferFails ==
  \A u \in AllUnits :
    (Handling(u) /\ TransferQuery(req[u]) /\ ~InAllowList(rw[u])) =>
      /\ pc[u] \in {"route", "done"}
      /\ contacts[u] = << >>
      /\ addr[u] = NoAddr
      /\ pc[u] = "done" => (sink[u] = << ServFail >> /\ outcome[u] = "failed")

C1_Witness ==
  \E u \in AllUnits :
    /\ pc[u] = "done"
    /\ TransferQuery(req[u])
    /\ ~InAllowList(rw[u])
    /\ rw[u].net = "tcp"
    /\ Len(transferIPs) = 2
    /\ sink[u] = << ServFail >>

(***************************************************************************)
(* C3: a zone-transfer query received over UDP gets one SERVFAIL whether   *)
(* or not its client is in the allow-list; no transfer session is opened   *)
(* and no transfer message is written to the client.                       *)
(***************************************************************************)
C3_TransferOverUdpFails ==
  \A u \in AllUnits :
    (Handling(u) /\ TransferQuery(req[u]) /\ rw[u].net = "udp") =>
      /\ pc[u] \in {"route", "proxy", "done"}
      /\ contacts[u] = << >>
      /\ Count(sink[u], "xfr") = 0
      /\ pc[u] = "done" => (sink[u] = << ServFail >> /\ outcome[u] = "failed")

C3_Witness ==
  \E u \in AllUnits :
    /\ pc[u] = "done"
    /\ TransferQuery(req[u])
    /\ rw[u].net = "udp"
    /\ InAllowList(rw[u])
    /\ via[u] # "none"
    /\ sink[u] = << ServFail >>

(***************************************************************************)
(* C4: a query with no question gets one SERVFAIL over either transport    *)
(* and from any client; no upstream is selected and none is contacted.     *)
(***************************************************************************)
C4_EmptyQuestionFails ==
  \A u \in AllUnits :
    (Handling(u) /\ Len(req[u]) = 0) =>
      /\ pc[u] \in {"route", "done"}
      /\ addr[u] = NoAddr
      /\ via[u] = "none"
      /\ contacts[u] = << >>
      /\ pc[u] = "done" => (sink[u] = << ServFail >> /\ outcome[u] = "failed")

C4_Witness ==
  \E u \in AllUnits :
    /\ pc[u] = "done"
    /\ Len(req[u]) = 0
    /\ rw[u].net = "tcp"
    /\ sink[u] = << ServFail >>

(***************************************************************************)
(* C2 as stated: whatever the upstream does, the sink of a query holds one *)
(* outcome only, a reply, a transfer stream or a SERVFAIL, and a SERVFAIL  *)
(* never follows messages already written for the query.                   *)
(***************************************************************************)
C2_OneOutcomeOnly ==
  \A u \in AllUnits :
    /\ Count(sink[u], "servfail") + Count(sink[u], "reply") <= 1
    /\ Count(sink[u], "servfail") = 1 => Len(sink[u]) = 1
    /\ Count(sink[u], "reply") = 1 => Len(sink[u]) = 1
    /\ pc[u] = "done" => sink[u] # << >>

(***************************************************************************)
(* C2 as amended: the sink of a query holds one reply and nothing else, or *)
(* one SERVFAIL and nothing else, or a transfer stream; a transfer stream  *)
(* is followed by one SERVFAIL, its last message, exactly when a write of  *)
(* the transfer to the client failed after messages had been written.      *)
(* There is never a second SERVFAIL and never anything after a SERVFAIL.   *)
(***************************************************************************)
C2_OneOutcomeOrAbortedStream ==
  \A u \in AllUnits :
    LET s == sink[u]
    IN  /\ Count(s, "servfail") + Count(s, "reply") <= 1
        /\ Count(s, "reply") = 1 => Len(s) = 1
        /\ \A i \in 1..Len(s) :
             s[i].kind = "servfail" =>
               /\ i = Len(s)
               /\ pc[u] = "done"
               /\ outcome[u] = "failed"
               /\ \A j \in 1..(i - 1) : s[j].kind = "xfr"
               /\ i > 1 => /\ TransferQuery(req[u])
                           /\ rw[u].net = "tcp"
                           /\ Len(sent[u]) = i
        /\ ~TransferQuery(req[u]) => Len(s) <= 1
        /\ pc[u] = "done" => s # << >>

\* A transfer whose second write to the client failed: one transfer message,
\* then the SERVFAIL.
C2_Witness ==
  \E u \in AllUnits :
    /\ pc[u] = "done"
    /\ Len(sink[u]) = 2
    /\ sink[u][1].kind = "xfr"
    /\ sink[u][2] = ServFail

(***************************************************************************)
(* C5: every query that route receives is eventually done, as responded   *)
(* or as failed, when its handler keeps running and every call to the      *)
(* upstream returns; a failed query has a SERVFAIL as the last message of  *)
(* its sink, and no finished query has an empty sink.                      *)
(***************************************************************************)
C5_EveryQueryAnswered ==
  /\ \A u \in AllUnits : (pc[u] = "route") ~> (pc[u] = "done")
  /\ [](\A u \in AllUnits :
          /\ pc[u] = "done" => (outcome[u] \in {"responded", "failed"} /\ sink[u] # << >>)
          /\ outcome[u] = "failed" =>
               (pc[u] = "done" /\ sink[u] # << >> /\ sink[u][Len(sink[u])] = ServFail)
          /\ pc[u] # "done" => outcome[u] = "none")

\* A query failed by an error of its upstream.
C5_Witness ==
  \E u \in AllUnits :
    /\ pc[u] = "done"
    /\ outcome[u] = "failed"
    /\ Len(contacts[u]) = 1
    /\ sink[u] = << ServFail >>

(***************************************************************************)
(* Names and addresses the routing properties speak of.                    *)
(***************************************************************************)
ExampleComKey == <<"e", "x", "a", "m", "p", "l", "e", ".", "c", "o", "m", ".">>  \* "example.com."
DotExampleComKey == <<".", "e", "x", "a", "m", "p", "l", "e", ".", "c", "o", "m", ".">>  \* ".example.com."
SubdomainExampleCom == <<"s", "u", "b", "d", "o", "m", "a", "i", "n", ".", "e", "x", "a", "m", "p", "l", "e", ".", "c", "o", "m", ".">>  \* "subdomain.example.com."
NotExampleCom == <<"n", "o", "t", "e", "x", "a", "m", "p", "l", "e", ".", "c", "o", "m", ".">>  \* "notexample.com."
OtherNet == <<"o", "t", "h", "e", "r", ".", "n", "e", "t", ".">>  \* "other.net."
Google8844 == <<"8", ".", "8", ".", "4", ".", "4", ":", "5", "3">>  \* "8.8.4.4:53"

\* The members of the public resolver pool.
Pool == { publicServer[i] : i \in 1..Len(publicServer) }

\* Unit u has selected an upstream for its query: route has called proxy.
Forwarded(u) == pc[u] \notin {"idle", "route"} /\ via[u] # "none"

\* The keys of the routing table the first question name of unit u ends in.
MatchingKeys(u) == { k \in DOMAIN routes : EndsIn(req[u][1].Name, k) }

\* The match of key at the end of name starts at a label boundary.
Aligned(name, k) ==
  \/ Len(name) = Len(k)
  \/ k[1] = "."
  \/ name[Len(name) - Len(k)] = "."

(***************************************************************************)
(* C6: a forwarded query whose first question name ends in the suffix of   *)
(* exactly one route goes to the upstream of that route; when it ends in   *)
(* several suffixes it goes to the upstream of one of the matching routes; *)
(* a pool member is chosen only when no suffix matches.                    *)
(***************************************************************************)
C6_RouteSelectsMatchingUpstream ==
  \A u \in AllUnits :
    Forwarded(u) =>
      /\ \A k \in DOMAIN routes :
           MatchingKeys(u) = {k} => (via[u] = "route" /\ addr[u] = routes[k])
      /\ MatchingKeys(u) # {} =>
           (via[u] = "route" /\ \E k \in MatchingKeys(u) : addr[u] = routes[k])
      /\ via[u] = "pool" => MatchingKeys(u) = {}

\* A name that ends in one suffix of a table of two routes, sent to that route.
C6_Witness ==
  \E u \in AllUnits :
    /\ Forwarded(u)
    /\ Cardinality(DOMAIN routes) = 2
    /\ Cardinality(MatchingKeys(u)) = 1
    /\ via[u] = "route"
    /\ Len(contacts[u]) = 1

(***************************************************************************)
(* C7: a forwarded query whose first question name ends in no configured   *)
(* suffix gets a member of the public resolver pool; every query that      *)
(* passes the tests of route gets exactly one upstream address: selection  *)
(* always has a result and the handler goes on to proxy with it.           *)
(***************************************************************************)
C7_SelectionTotalDefaultInPool ==
  \A u \in AllUnits :
    /\ Forwarded(u) =>
         /\ addr[u] # NoAddr
         /\ MatchingKeys(u) = {} => (via[u] = "pool" /\ addr[u] \in Pool)
    /\ (pc[u] = "route" /\ Len(req[u]) > 0
          /\ (TransferQuery(req[u]) => InAllowList(rw[u]))) =>
         /\ SelectUpstream(req[u]) # {}
         /\ ENABLED Route(u)
    /\ (Handling(u) /\ pc[u] # "route" /\ Len(req[u]) > 0
          /\ (TransferQuery(req[u]) => InAllowList(rw[u]))) =>
         Forwarded(u)
    /\ pc[u] # "panic"

\* A query for a name no suffix matches, with a table that has routes.
C7_Witness ==
  \E u \in AllUnits :
    /\ Forwarded(u)
    /\ DOMAIN routes # {}
    /\ MatchingKeys(u) = {}
    /\ addr[u] \in Pool
    /\ Len(contacts[u]) = 1

(***************************************************************************)
(* C8 as stated: suffix matching is separator-aligned, so a query is sent  *)
(* to the upstream of a route only when the key matches its name from a    *)
(* label boundary on: the key example.com. never matches notexample.com.   *)
(***************************************************************************)
C8_MatchIsSeparatorAligned ==
  \A u \in AllUnits :
    (Forwarded(u) /\ via[u] = "route") => Aligned(req[u][1].Name, key[u])

(***************************************************************************)
(* C8 as amended: every key of the routing table ends with a separator     *)
(* and a route matches a name that ends in the characters of its key,      *)
(* label boundary or not: the key example.com. does match notexample.com.  *)
(* and the query goes to the upstream of that route; only a key that       *)
(* itself starts with a separator, .example.com., never matches it.        *)
(***************************************************************************)
C8_MatchIsTrailingString ==
  /\ \A k \in DOMAIN routes : k # Empty /\ k[Len(k)] = "."
  /\ \A u \in AllUnits :
       Forwarded(u) =>
         /\ via[u] = "route" =>
              /\ key[u] \in DOMAIN routes
              /\ EndsIn(req[u][1].Name, key[u])
              /\ addr[u] = routes[key[u]]
         /\ (req[u][1].Name = NotExampleCom /\ DOMAIN routes = {ExampleComKey}) =>
              (via[u] = "route" /\ key[u] = ExampleComKey)
         /\ (req[u][1].Name = NotExampleCom /\ DOMAIN routes = {DotExampleComKey}) =>
              via[u] = "pool"
         /\ (via[u] = "route" /\ key[u][1] = ".") =>
              Aligned(req[u][1].Name, key[u])

\* The query for notexample.com. sent to the upstream of the key example.com.
C8_Witness ==
  \E u \in AllUnits :
    /\ Forwarded(u)
    /\ req[u][1].Name = NotExampleCom
    /\ key[u] = ExampleComKey
    /\ Len(contacts[u]) = 1
    /\ contacts[u][1].addr = Google8844

(***************************************************************************)
(* C9 as stated: with the table {example.com. -> 8.8.4.4:53}, a query for  *)
(* subdomain.example.com. selects 8.8.4.4:53 and a query for other.net.    *)
(* selects a pool member and never 8.8.4.4:53.                             *)
(***************************************************************************)
ScenarioTable ==
  DOMAIN routes = {ExampleComKey} /\ routes[ExampleComKey] = Google8844

C9_ScenarioNever8844 ==
  \A u \in AllUnits :
    (ScenarioTable /\ Forwarded(u)) =>
      /\ req[u][1].Name = SubdomainExampleCom => addr[u] = Google8844
      /\ req[u][1].Name = OtherNet => (addr[u] \in Pool /\ addr[u] # Google8844)

(***************************************************************************)
(* C9 as amended: with the table {example.com. -> 8.8.4.4:53}, a query for *)
(* subdomain.example.com. selects 8.8.4.4:53 through the route, and a      *)
(* query for other.net. selects a pool member, through the pool and never  *)
(* through the route; 8.8.4.4:53 is itself a pool member and may be the    *)
(* one selected.                                                           *)
(***************************************************************************)
C9_ScenarioPoolNotRoute ==
  /\ Google8844 \in Pool
  /\ \A u \in AllUnits :
       (ScenarioTable /\ Forwarded(u)) =>
         /\ req[u][1].Name = SubdomainExampleCom =>
              (via[u] = "route" /\ addr[u] = Google8844)
         /\ req[u][1].Name = OtherNet => (via[u] = "pool" /\ addr[u] \in Pool)

\* The query for other.net. sent to the pool member 8.8.4.4:53.
C9_Witness ==
  \E u \in AllUnits :
    /\ ScenarioTable
    /\ Forwarded(u)
    /\ req[u][1].Name = OtherNet
    /\ via[u] = "pool"
    /\ addr[u] = Google8844
    /\ Len(contacts[u]) = 1

(***************************************************************************)
(* C10: an ordinary query is exchanged with the selected upstream once,    *)
(* over the transport of the client; when the exchange succeeds the one    *)
(* message written to the client is the reply the upstream gave.           *)
(***************************************************************************)
C10_SameTransportVerbatimReply ==
  \A u \in AllUnits :
    (Handling(u) /\ Len(req[u]) > 0 /\ ~TransferQuery(req[u])) =>
      /\ Len(contacts[u]) <= 1
      /\ \A i \in 1..Len(contacts[u]) :
           /\ contacts[u][i].kind = "exchange"
           /\ contacts[u][i].net = rw[u].net
           /\ contacts[u][i].addr = addr[u]
      /\ pc[u] \in {"exchange", "done"} => Len(contacts[u]) = 1
      /\ outcome[u] = "responded" =>
           /\ Len(sent[u]) = 1
           /\ ~sent[u][1].err
           /\ sink[u] = << Reply(sent[u][1].rr) >>

\* A reply relayed to a TCP client from an upstream reached over TCP.
C10_Witness ==
  \E u \in AllUnits :
    /\ pc[u] = "done"
    /\ ~TransferQuery(req[u])
    /\ rw[u].net = "tcp"
    /\ contacts[u] = << [kind |-> "exchange", addr |-> addr[u], net |-> "tcp"] >>
    /\ sink[u] = << Reply("r2") >>

(***************************************************************************)
(* C11: a query opens at most one session with an upstream, the one route  *)
(* selected; when the call to the upstream returns an error the query ends *)
(* with one SERVFAIL and that upstream is not called again, nor another.   *)
(***************************************************************************)
C11_OneContactNoRetry ==
  \A u \in AllUnits :
    /\ Len(contacts[u]) <= 1
    /\ \A i \in 1..Len(contacts[u]) : contacts[u][i].addr = addr[u]
    /\ (pc[u] \in {"proxy", "in", "exchange", "out"} /\ Len(contacts[u]) = 1) =>
         pc[u] # "proxy"
    /\ (pc[u] = "done" /\ Len(contacts[u]) = 1 /\ sent[u] = << >>) =>
         (outcome[u] = "failed" /\ sink[u] = << ServFail >>)

\* An ordinary query failed by the error of its one exchange with a pool member.
C11_Witness ==
  \E u \in AllUnits :
    /\ pc[u] = "done"
    /\ Len(req[u]) > 0
    /\ ~TransferQuery(req[u])
    /\ via[u] = "pool"
    /\ Len(contacts[u]) = 1
    /\ sent[u] = << >>
    /\ sink[u] = << ServFail >>

(***************************************************************************)
(* C12: for a zone transfer of an allow-listed client over TCP that the    *)
(* upstream serves without error and whose writes to the client succeed,   *)
(* the client gets one message per message of the upstream, in the order   *)
(* of the upstream, nothing else, and no SERVFAIL.                         *)
(***************************************************************************)
\* The transfer of unit u ran without an error of the upstream or of a write.
CleanTransfer(u) ==
  /\ TransferQuery(req[u])
  /\ InAllowList(rw[u])
  /\ rw[u].net = "tcp"
  /\ pc[u] \in {"out", "done"}
  /\ \A i \in 1..Len(sent[u]) : ~sent[u][i].err
  /\ pc[u] = "done" => outcome[u] = "responded"

C12_TransferRelayedInOrder ==
  \A u \in AllUnits :
    CleanTransfer(u) =>
      /\ Len(sink[u]) = Len(sent[u])
      /\ \A i \in 1..Len(sent[u]) : sink[u][i] = XfrMsg(sent[u][i].rr)
      /\ Count(sink[u], "servfail") = 0

\* A transfer of two different records, relayed in the order of the upstream.
C12_Witness ==
  \E u \in AllUnits :
    /\ CleanTransfer(u)
    /\ pc[u] = "done"
    /\ ClientHost(rw[u]) = <<"1", ".", "2", ".", "3", ".", "4">>
    /\ sent[u] = << [rr |-> "A", err |-> FALSE], [rr |-> "B", err |-> FALSE] >>
    /\ sink[u] = << XfrMsg("A"), XfrMsg("B") >>

(***************************************************************************)
(* C13: for a zone transfer of an allow-listed client over TCP, an error   *)
(* at any point (t.In fails to open the session, the upstream reports an   *)
(* error in the middle of the stream, a write to the client fails) ends    *)
(* the query as failed, with a SERVFAIL, never as a completed transfer,    *)
(* and no envelope after the one of the error is relayed.                  *)
(***************************************************************************)
\* The transfer of unit u met an error: no session, an error envelope, or a
\* message that could not be written to the client.
TransferError(u) ==
  \/ sent[u] = << >>
  \/ \E i \in 1..Len(sent[u]) : sent[u][i].err
  \/ Count(sink[u], "xfr") < Len(sent[u])

C13_AnyTransferErrorFails ==
  \A u \in AllUnits :
    (TransferQuery(req[u]) /\ InAllowList(rw[u]) /\ rw[u].net = "tcp"
       /\ Len(contacts[u]) = 1) =>
      /\ (pc[u] = "done" /\ TransferError(u)) =>
           /\ outcome[u] = "failed"
           /\ sink[u][Len(sink[u])] = ServFail
      /\ \A i \in 1..Len(sent[u]) :
           sent[u][i].err => (i = Len(sent[u]) /\ Count(sink[u], "xfr") <= i)

(***************************************************************************)
(* C14: allowed is true for every query without an AXFR or IXFR question,  *)
(* whatever the client; for a query with such a question at any position   *)
(* it is true exactly when the remote address of the client, its port and  *)
(* the brackets of an IPv6 literal stripped, equals an entry of the        *)
(* allow-list. A query with a question goes on to proxy exactly then.      *)
(***************************************************************************)
\* The host of a well-formed remote address "host:port" or "[host]:port".
PortStripped(a) ==
  LET i == CHOOSE n \in 1..Len(a) :
             a[n] = ":" /\ \A m \in (n + 1)..Len(a) : a[m] # ":"
      h == SubSeq(a, 1, i - 1)
  IN  IF h # << >> /\ h[1] = "[" /\ h[Len(h)] = "]"
      THEN SubSeq(h, 2, Len(h) - 1)
      ELSE h

HostListed(w) ==
  \E i \in 1..Len(transferIPs) : transferIPs[i] = PortStripped(w.remote)

C14_AllowedIffListedHost ==
  \A u \in AllUnits :
    Handling(u) =>
      /\ ~TransferQuery(req[u]) => allowed(rw[u], req[u])
      /\ TransferQuery(req[u]) => (allowed(rw[u], req[u]) <=> HostListed(rw[u]))
      /\ (pc[u] # "route" /\ Len(req[u]) > 0) =>
           (Forwarded(u) <=> (~TransferQuery(req[u]) \/ HostListed(rw[u])))

\* A transfer asked by the second question, from the listed IPv6 client ::1.
C14_Witness ==
  \E u \in AllUnits :
    /\ Forwarded(u)
    /\ Len(req[u]) = 2
    /\ req[u][1].Qtype = "A"
    /\ req[u][2].Qtype = "IXFR"
    /\ rw[u].remote = <<"[", ":", ":", "1", "]", ":", "5", "5", "5", "5">>
    /\ HostListed(rw[u])
    /\ Len(contacts[u]) = 1

(***************************************************************************)
(* C15: with the routing table of the documented example, the single route *)
(* ".example.com." to 8.8.4.4:53, a query for example.net or example.com   *)
(* is forwarded to 8.8.8.8:53 and a query for subdomain.example.com to     *)
(* 8.8.4.4:53.                                                             *)
(***************************************************************************)
ExampleNet == <<"e", "x", "a", "m", "p", "l", "e", ".", "n", "e", "t", ".">>  \* "example.net."
Google8888 == <<"8", ".", "8", ".", "8", ".", "8", ":", "5", "3">>  \* "8.8.8.8:53"

\* The routing table the example's -route flag builds.
ExampleTable ==
  DOMAIN routes = {DotExampleComKey} /\ routes[DotExampleComKey] = Google8844

C15_DocumentedExample ==
  \A u \in AllUnits :
    (ExampleTable /\ Forwarded(u)) =>
      /\ req[u][1].Name \in {ExampleNet, ExampleComKey} => addr[u] = Google8888
      /\ req[u][1].Name = SubdomainExampleCom => addr[u] = Google8844

(***************************************************************************)
(* C16: a query ends as failed only with an empty question list, a         *)
(* transfer from a client outside the allow-list, a transfer over UDP, or  *)
(* an error returned by the exchange or the transfer with the upstream;    *)
(* every other query ends as responded. The checks run in the order empty  *)
(* question list, authorization, upstream selection, transport, and only   *)
(* then is the upstream contacted.                                         *)
(***************************************************************************)
EmptyQuestion(u) == Len(req[u]) = 0

Denied(u) == TransferQuery(req[u]) /\ ~InAllowList(rw[u])

TransferOverUdp(u) == TransferQuery(req[u]) /\ rw[u].net = "udp"

\* The call to the upstream returned an error: no reply or no channel, or a
\* message of the transfer that could not be written to the client.
ForwarderError(u) ==
  /\ contacts[u] # << >>
  /\ \/ sent[u] = << >>
     \/ Count(sink[u], "xfr") + Count(sink[u], "reply") < Len(sent[u])

C16_Causes ==
  \A u \in AllUnits :
    pc[u] = "done" =>
      /\ outcome[u] \in {"failed", "responded"}
      /\ outcome[u] = "failed" <=>
           (EmptyQuestion(u) \/ Denied(u) \/ TransferOverUdp(u) \/ ForwarderError(u))
      /\ (EmptyQuestion(u) \/ Denied(u)) => (via[u] = "none" /\ contacts[u] = << >>)
      /\ (~EmptyQuestion(u) /\ ~Denied(u)) => via[u] # "none"
      /\ TransferOverUdp(u) => contacts[u] = << >>

C16_Order ==
  \A u \in AllUnits :
    /\ via'[u] \notin {via[u], "none"} =>
         (pc[u] = "route" /\ ~EmptyQuestion(u) /\ ~Denied(u))
    /\ contacts'[u] \notin {contacts[u], << >>} =>
         /\ pc[u] = "proxy"
         /\ ~EmptyQuestion(u) /\ ~Denied(u)
         /\ via[u] # "none"
         /\ ~TransferOverUdp(u)
         /\ contacts'[u][Len(contacts'[u])].addr = addr[u]

C16_FailedOnlyForFourCauses == [] C16_Causes /\ [][C16_Order]_vars

\* A transfer that passed every check and failed inside the Forwarder.
C16_Witness ==
  \E u \in AllUnits :
    /\ pc[u] = "done"
    /\ outcome[u] = "failed"
    /\ ~EmptyQuestion(u) /\ ~Denied(u) /\ ~TransferOverUdp(u)
    /\ TransferQuery(req[u])
    /\ ForwarderError(u)
    /\ sent[u] # << >>

(***************************************************************************)
(* C17: no step of a handler changes the routing table or the transfer     *)
(* allow-list, which stay the ones startup built from the flags, and a     *)
(* handler that has returned leaves nothing behind: once no query is in    *)
(* hand the state of the program is again a state startup can end in. The  *)
(* public resolver pool is the definition publicServer, which no action    *)
(* can assign.                                                             *)
(***************************************************************************)
StartupState ==
  \E rl \in RouteLists, at \in AllowTransfers : Startup(rl, at, units)

C17_Frame ==
  /\ routes' = routes
  /\ transferIPs' = transferIPs
  /\ fatal' = fatal

C17_BuiltAtStartup ==
  /\ \E rl \in RouteLists : routes = ParseRoutes(rl).routes
  /\ \E at \in AllowTransfers : transferIPs = Split(at, ",")
  /\ (\A u \in AllUnits : pc[u] = "idle") => StartupState

C17_CollectionsUnchanged == [] C17_BuiltAtStartup /\ [][C17_Frame]_vars

\* A query answered by an upstream under a table and an allow-list that are
\* not empty.
C17_Witness ==
  \E u \in AllUnits :
    /\ pc[u] = "done"
    /\ outcome[u] = "responded"
    /\ contacts[u] # << >>
    /\ DOMAIN routes # {}
    /\ Len(transferIPs) = 2

(***************************************************************************)
(* C18: with two queries in hand, every step changes the handler state of  *)
(* one query only and leaves the shared tables alone; the upstream class   *)
(* and the outcome of a query are determined by its own questions, client  *)
(* and upstream exchange; a handler with work to do can always take its    *)
(* next step, whatever the other handler is doing; and a query completes   *)
(* even if the other one waits for its upstream forever.                   *)
(***************************************************************************)
Local(u) ==
  << pc[u], req[u], rw[u], addr[u], via[u], key[u], sink[u], contacts[u],
     sent[u], outcome[u] >>

Running(u) == pc[u] \notin {"idle", "done"}

C18_OwnInputsOnly ==
  \A u \in AllUnits :
    /\ Running(u) => ENABLED Handle(u)
    /\ Forwarded(u) => (via[u] = "route" <=> MatchingKeys(u) # {})
    /\ pc[u] = "done" =>
         (outcome[u] = "failed" <=>
            (EmptyQuestion(u) \/ Denied(u) \/ TransferOverUdp(u) \/ ForwarderError(u)))
    /\ pc[u] = "done" => outcome[u] \in {"failed", "responded"}

C18_OneUnitPerStep ==
  /\ config' = config
  /\ \E u \in AllUnits : \A v \in AllUnits \ {u} : Local(v)' = Local(v)

C18_ConcurrentQueriesIndependent ==
  /\ [] C18_OwnInputsOnly
  /\ [][C18_OneUnitPerStep]_vars
  /\ (Running("u2") ~> pc["u2"] = "done")

\* u2 has been answered by its upstream while u1 waits for its own.
C18_Witness ==
  /\ pc["u2"] = "done" /\ outcome["u2"] = "responded"
  /\ contacts["u2"] # << >>
  /\ pc["u1"] \in {"exchange", "in"}

(***************************************************************************)
(* C19: started with an empty -allow-transfer, no zone-transfer query is   *)
(* authorized, whatever the remote address of its writer, one whose host   *)
(* cannot be extracted included: the query never passes route, no upstream *)
(* is selected or contacted, and the handler ends after one SERVFAIL.      *)
(***************************************************************************)
\* transferIPs as startup leaves it when -allow-transfer is empty.
NoAllowList == transferIPs = Split(Empty, ",")

C19_EmptyAllowListDeniesAll ==
  \A u \in AllUnits :
    (NoAllowList /\ Handling(u) /\ TransferQuery(req[u])) =>
      /\ ~allowed(rw[u], req[u])
      /\ pc[u] \in {"route", "done"}
      /\ via[u] = "none"
      /\ contacts[u] = << >>
      /\ pc[u] = "done" => (outcome[u] = "failed" /\ sink[u] = << ServFail >>)

(***************************************************************************)
(* C20: every upstream address route hands to proxy, the address of a      *)
(* route or a member of the public resolver pool, passes validHostPort: it *)
(* splits into a host and a port, neither of them empty.                   *)
(***************************************************************************)
C20_UpstreamIsHostPort ==
  \A u \in AllUnits :
    Forwarded(u) => validHostPort(addr[u])

====
